---- MODULE Spec2Model ----
(***************************************************************************)
(* Audit-logging subsystem of the to-do backend: the Task model's          *)
(* Mongoose hooks (src/models/Task.js), the TaskHistory store, and the     *)
(* controllers that drive them (src/controllers/taskController.js).        *)
(*                                                                         *)
(* JavaScript values are modelled as strings: "undefined" and "null" are   *)
(* the two absent values, "true"/"false" the booleans, user ids stand for  *)
(* ObjectIds.  Every request runs in a process slot; each await of the     *)
(* code is a step boundary, so requests interleave exactly where the       *)
(* event loop lets them.                                                   *)
(***************************************************************************)
EXTENDS Integers, Sequences, FiniteSets, TLC

\* ---- bounds -------------------------------------------------------------
MaxOps == 2                      \* requests served one after the other (serial mode)

Procs == {"p1", "p2"}            \* concurrent request slots
TaskIds == {"t1", "t2"}          \* ObjectIds the task collection may hand out
UserIds == {"u1", "u2"}
Titles == {"a", "b"}
Descs == {"", "d"}
Bools == {"true", "false"}

Undef == "undefined"
Null == "null"
NoUser == "none"                 \* no actor context supplied / no req.user

\* ---- src/models/Task.js:34 ----------------------------------------------
auditFields == <<"title", "description", "completed", "owner">>

FieldNames == {auditFields[i] : i \in 1..Len(auditFields)}

\* A document's audited fields; an absent path reads as undefined.
EmptyFields == [title |-> Undef, description |-> Undef, completed |-> Undef, owner |-> Undef]

NoDoc == [present |-> FALSE, _id |-> "none", f |-> EmptyFields]

MkDoc(id, f) == [present |-> TRUE, _id |-> id, f |-> f]

\* A request body: undefined marks a key that is not there.
NoBody == EmptyFields

\* An update payload as the hooks read it: the keys under $set, the keys at
\* the top level of the update object, and the paths named under $unset.
NoUpdate == [set |-> EmptyFields, top |-> EmptyFields, unset |-> {}]

\* JavaScript truthiness of the values in use ('' , null, undefined are falsy).
Truthy(v) == v \notin {Undef, Null, "", "false"}

\* ObjectId values are objects: each load or cast builds a fresh instance.
IsObjectId(v) == v \in UserIds

\* mode is fixed by the initial state: "serial" runs one request at a time
\* from slot p1, up to MaxOps of them, over the wide input sets; "race" runs
\* one request in each slot, interleaved at every await, over the narrow
\* input sets; "diff" (SpecDiff) applies the save pathway's diff helper to
\* loaded and modified documents.
VARIABLES tasks, users, history, req, nops, created, mode

vars == <<tasks, users, history, req, nops, created, mode>>


\* ---- actor context ------------------------------------------------------
NoActor == [id |-> NoUser, name |-> NoUser, role |-> NoUser]

\* created_by: null (the three sub-paths of the nested created_by are null).
NullActor == [id |-> Null, name |-> Null, role |-> Null]

Email(u) == IF u = "u1" THEN "u1@x" ELSE "u2@x"

RoleLists == {<<>>, <<"user">>, <<"admin">>}

Includes(roles, r) == \E i \in 1..Len(roles) : roles[i] = r

\* { id: req.user._id, name: req.user.email, role: req.user.roles[0] || 'user' }
AuditUser(u, roles) ==
    [id |-> u, name |-> Email(u), role |-> IF Len(roles) > 0 THEN roles[1] ELSE "user"]

\* Mutant: the object is built without the null check.
CreatedBy_NoNullCheck(userContext) ==
    [id |-> userContext.id, name |-> userContext.name, role |-> userContext.role]

\* userContext ? { id, name, role } : null
CreatedBy(userContext) ==
    IF userContext = NoActor
    THEN NullActor
    ELSE [id |-> userContext.id, name |-> userContext.name, role |-> userContext.role]

\* ---- documents ----------------------------------------------------------
\* An in-memory Mongoose document of the save pathway: isNew and the modified
\* paths are the framework's bookkeeping, locals is doc.$locals.auditUser.
NoSaveDoc ==
    [present |-> FALSE, _id |-> "none", f |-> EmptyFields, isNew |-> FALSE,
     modified |-> {}, locals |-> NoActor]

\* Model.findOne({_id: id}) / findById(id) against the task collection.
FindOne(store, id) == store[id]

\* ---- request slots ------------------------------------------------------
IdleReq ==
    [pc |-> "idle", op |-> "none", inv |-> 0, ctrl |-> FALSE,
     user |-> NoUser, roles |-> <<>>, auditUser |-> NoActor,
     id |-> "none", body |-> NoBody, update |-> NoUpdate, new |-> FALSE, target |-> NoUser, newRoles |-> <<>>,
     doc |-> NoSaveDoc, prev |-> EmptyFields,
     originalDoc |-> NoDoc, resDoc |-> NoDoc, before |-> NoDoc,
     applied |-> FALSE, failed |-> FALSE, storeFailed |-> FALSE, fetchFailed |-> FALSE,
     raced |-> FALSE, status |-> 0, total |-> 0, logs |-> <<>>, removed |-> {}]

Busy(p) == req[p].pc \notin {"idle", "done"}

CanStart(p) ==
    IF mode = "race"
    THEN req[p].pc = "idle"
    ELSE p = "p1" /\ ~Busy(p) /\ nops < MaxOps

\* Every other in-flight request that targets one of the tasks in ids has
\* had that task mutated under it.
MarkRaced(r, p, ids) ==
    [q \in Procs |->
        IF q # p /\ r[q].pc \notin {"idle", "done"} /\ r[q].id \in ids
        THEN [r[q] EXCEPT !.raced = TRUE]
        ELSE r[q]]

Finish(r, st) == [r EXCEPT !.pc = "done", !.status = st]

\* Mutant: the hook lets the error of the audit write reach the caller.
AuditWriteFailed_Propagates(r, st) ==
    [r EXCEPT !.pc = "done", !.storeFailed = TRUE, !.status = 500]

\* TaskHistory.create rejected inside a post hook's try block: the catch logs
\* the error and the hook goes on to next(), so the caller gets the status st
\* of the primary operation.
AuditWriteFailed(r, st) == Finish([r EXCEPT !.storeFailed = TRUE], st)

\* Mutant: a rejected primary mutation is answered as a success.
PrimaryFailed_ReportsSuccess(r, st) == Finish([r EXCEPT !.failed = TRUE], 200)

\* The primary mutation rejected (validation error, store error): the promise
\* of save() / findOneAndUpdate() / findOneAndDelete() rejects, no post hook
\* runs, and the caller gets the error (the controller's catch: next(error)).
PrimaryFailed(r, st) == Finish([r EXCEPT !.failed = TRUE], st)

\* await TaskHistory.create(...) never settles: the hook stays suspended at
\* the await, next() is not reached and the operation's promise stays pending.
AuditWriteHangs(r) == [r EXCEPT !.pc = "auditPending"]

\* The task createTask stores for user u2 and the body {title: "a"}.
SeedTask ==
    MkDoc("t1", [title |-> "a", description |-> "", completed |-> "false", owner |-> "u2"])

Init ==
    /\ mode \in {"serial", "race"}
    /\ tasks \in {[id \in TaskIds |-> NoDoc],
                  [id \in TaskIds |-> IF id = "t1" THEN SeedTask ELSE NoDoc]}
    /\ mode = "race" => tasks["t1"].present
    /\ created = {id \in TaskIds : tasks[id].present}
    /\ users = [u \in UserIds |->
                  [exists |-> TRUE, roles |-> IF u = "u1" THEN <<"admin">> ELSE <<"user">>]]
    /\ history = <<>>
    /\ req = [p \in Procs |-> IdleReq]
    /\ nops = 0

\* ---- diff engine (src/models/Task.js) -----------------------------------
\* auditFields.forEach(...) pushing the entry of every field that emits one.
RECURSIVE Collect(_, _)
Collect(i, E) ==
    IF i > Len(auditFields)
    THEN <<>>
    ELSE (IF E[auditFields[i]].emit THEN <<E[auditFields[i]].entry>> ELSE <<>>)
         \o Collect(i + 1, E)

Entry(field, from, to) == [field_name |-> field, from_value |-> from, to_value |-> to]

getChangedFieldsForCreate(doc) ==
    Collect(1, [field \in FieldNames |->
        [emit |-> doc.f[field] # Undef,
         entry |-> Entry(field, Null, doc.f[field])]])

\* doc.isModified(field): the path is among the document's modified paths.
isModified(doc, field) == field \in doc.modified

\* doc.get(field, null, {getters: false}) reads the document's current value,
\* the same value doc[field] reads.
getChangedFieldsForUpdate(doc) ==
    Collect(1, [field \in FieldNames |->
        [emit |-> isModified(doc, field),
         entry |-> Entry(field, doc.f[field], doc.f[field])]])

\* Mutant: loose inequality, under which null and undefined are equal.
StrictNotEqual_Loose(oldValue, newValue) ==
    IF IsObjectId(oldValue) /\ IsObjectId(newValue) THEN TRUE
    ELSE IF {oldValue, newValue} \subseteq {Undef, Null} THEN FALSE
    ELSE oldValue # newValue

\* oldValue !== newValue: identity for objects (two ObjectId instances are
\* never the same object), value comparison for primitives.
StrictNotEqual(oldValue, newValue) ==
    IF IsObjectId(oldValue) /\ IsObjectId(newValue) THEN TRUE ELSE oldValue # newValue

\* Mutant: the top-level key is preferred to the key under $set.
ResolvedNewValue_TopFirst(update, doc, field) ==
    IF update.top[field] # Undef
    THEN update.top[field]
    ELSE IF update.set[field] # Undef THEN update.set[field] ELSE doc.f[field]

\* update.$set?.[field] !== undefined ? update.$set[field]
\*   : update[field] !== undefined ? update[field] : doc[field]
ResolvedNewValue(update, doc, field) ==
    IF update.set[field] # Undef
    THEN update.set[field]
    ELSE IF update.top[field] # Undef THEN update.top[field] ELSE doc.f[field]

\* Mutant: from_value is read from the returned document, not the snapshot.
getChangedFieldsForAtomicUpdate_FromReturned(originalDoc, update, doc) ==
    Collect(1, [field \in FieldNames |->
        [emit |-> /\ StrictNotEqual(originalDoc.f[field], ResolvedNewValue(update, doc, field))
                  /\ ResolvedNewValue(update, doc, field) # Undef,
         entry |-> Entry(field, doc.f[field], ResolvedNewValue(update, doc, field))]])

getChangedFieldsForAtomicUpdate(originalDoc, update, doc) ==
    Collect(1, [field \in FieldNames |->
        [emit |-> /\ StrictNotEqual(originalDoc.f[field], ResolvedNewValue(update, doc, field))
                  /\ ResolvedNewValue(update, doc, field) # Undef,
         entry |-> Entry(field, originalDoc.f[field], ResolvedNewValue(update, doc, field))]])

\* Mutant: the sentinel's two values swapped.
DeleteSentinel_Swapped == <<Entry("status", "deleted", "active")>>

DeleteSentinel == <<Entry("status", "active", "deleted")>>

\* TaskHistory.create({...}): one document appended to task_histories.  inv
\* is the invocation that issued the write (bookkeeping, not a stored field).
AuditRecord(id, changeType, logs, userContext, inv) ==
    [model |-> "Task", model_id |-> id, change_type |-> changeType, logs |-> logs,
     created_by |-> CreatedBy(userContext), inv |-> inv]

\* ---- request inputs -----------------------------------------------------
Values(field) ==
    CASE field = "title" -> Titles
      [] field = "description" -> Descs
      [] field = "completed" -> Bools
      [] field = "owner" -> UserIds

One(field, v) == [EmptyFields EXCEPT ![field] = v]

\* Bodies that carry one key, and bodies that carry two.
SingleBodies == UNION {{One(field, v) : v \in Values(field)} : field \in FieldNames}

PairBodies ==
    UNION {UNION {{[b EXCEPT ![field] = v] : v \in Values(field)} :
                  field \in {g \in FieldNames : b[g] = Undef}} : b \in SingleBodies}

\* The narrow set: one key, set to a value the seeded task does not hold.
RaceBodies ==
    {One("title", "b"), One("description", "d"), One("completed", "true"), One("owner", "u1")}

\* Bodies of PUT /api/tasks/:id and payloads of a direct findOneAndUpdate.
UpdateBodies == IF mode = "race" THEN RaceBodies ELSE {EmptyFields} \cup SingleBodies

\* Assignments made to a loaded document before save().
SetBodies ==
    IF mode = "race" THEN RaceBodies ELSE {EmptyFields} \cup SingleBodies \cup PairBodies

\* Bodies of POST /api/tasks and field sets of a direct new Task(...).
CreateBodies ==
    IF mode = "race"
    THEN {One("title", "a"), [One("title", "a") EXCEPT !.owner = "u2"]}
    ELSE {EmptyFields} \cup
         {b \in SingleBodies \cup PairBodies : b.title = "a" /\ b.completed = Undef}

\* Task ids a caller can name: the ids the collection has handed out.
KnownIds == created

AdminOnly == {"changeUserRole", "deleteUser", "getAuditLogs", "getTaskAuditLogs"}

\* authenticate (and, on the user and audit routes, requireAdmin): req.user is
\* the user record as it is read now; the handler named by op runs next.
Begin(p, u, op, id, body, target, newRoles) ==
    /\ LET r0 == [IdleReq EXCEPT !.op = op, !.inv = nops + 1, !.ctrl = TRUE,
                                 !.user = u, !.roles = users[u].roles,
                                 !.id = id, !.body = body,
                                 !.target = target, !.newRoles = newRoles]
       IN req' = [req EXCEPT ![p] =
                    IF ~users[u].exists
                    THEN Finish(r0, 401)
                    ELSE IF op \in AdminOnly /\ ~Includes(users[u].roles, "admin")
                         THEN Finish(r0, 403)
                         ELSE [r0 EXCEPT !.pc = op]]
    /\ nops' = nops + 1
    /\ UNCHANGED <<tasks, users, history, created, mode>>

Authenticate(p) ==
    /\ CanStart(p)
    /\ \E u \in UserIds :
        \/ \E body \in CreateBodies : Begin(p, u, "createTask", "none", body, NoUser, <<>>)
        \/ \E id \in KnownIds, body \in UpdateBodies :
               Begin(p, u, "updateTask", id, body, NoUser, <<>>)
        \/ \E id \in KnownIds : Begin(p, u, "deleteTask", id, NoBody, NoUser, <<>>)
        \/ \E target \in UserIds, newRoles \in RoleLists :
               Begin(p, u, "changeUserRole", "none", NoBody, target, newRoles)
        \/ \E target \in UserIds : Begin(p, u, "deleteUser", "none", NoBody, target, <<>>)
        \/ Begin(p, u, "getAuditLogs", "none", NoBody, NoUser, <<>>)
        \/ \E id \in KnownIds : Begin(p, u, "getTaskAuditLogs", id, NoBody, NoUser, <<>>)

\* ---- save pathway -------------------------------------------------------
\* new Task(taskData): schema defaults applied (completed: false), a fresh
\* _id, every path that holds a value marked modified, isNew true.
NewTask(id, data, locals) ==
    LET f == [data EXCEPT !.completed = IF @ = Undef THEN "false" ELSE @]
    IN [present |-> TRUE, _id |-> id, f |-> f, isNew |-> TRUE,
        modified |-> {fld \in FieldNames : f[fld] # Undef}, locals |-> locals]

\* createTask, up to the call of taskDoc.save().
CreateTask(p) ==
    /\ req[p].pc = "createTask"
    /\ LET r == req[p]
           isAdmin == Includes(r.roles, "admin")
           taskOwner == IF Truthy(r.body.owner) /\ isAdmin THEN r.body.owner ELSE r.user
           taskData == [title |-> r.body.title,
                        description |-> IF Truthy(r.body.description)
                                        THEN r.body.description ELSE "",
                        completed |-> Undef,
                        owner |-> taskOwner]
       IN IF ~Truthy(r.body.title)
          THEN /\ req' = [req EXCEPT ![p] = Finish(r, 400)]
               /\ UNCHANGED created
          ELSE IF Truthy(r.body.owner) /\ ~isAdmin
          THEN /\ req' = [req EXCEPT ![p] = Finish(r, 403)]
               /\ UNCHANGED created
          ELSE LET id == CHOOSE x \in TaskIds \ created : TRUE IN
               /\ TaskIds \ created # {}
               /\ created' = created \cup {id}
               /\ req' = [req EXCEPT ![p] =
                            [r EXCEPT !.pc = "save", !.id = id,
                                      !.auditUser = AuditUser(r.user, r.roles),
                                      !.doc = NewTask(id, taskData,
                                                      AuditUser(r.user, r.roles))]]
    /\ UNCHANGED <<tasks, users, history, nops, mode>>

\* Schema validation run by save(): title and owner are required.
Valid(f) == f.title \notin {Undef, Null, ""} /\ f.owner \notin {Undef, Null}

\* The status the caller sees: the HTTP status for a controller, 200 for a
\* resolved and 500 for a rejected promise of a direct model call.
Status(r, st) == IF r.ctrl THEN st ELSE IF st < 400 THEN 200 ELSE 500

\* doc.save() up to its post hooks: validation, then insertOne for a new
\* document or updateOne({_id}, {$set: modified paths}) for a loaded one; the
\* document's change tracking is reset and isNew cleared before any post
\* hook runs.  A failed write rejects save() and no post hook runs.
SavePrimary(p) ==
    /\ req[p].pc = "save"
    /\ LET r == req[p]
           doc == r.doc
       IN IF ~Valid(doc.f)
          THEN /\ req' = [req EXCEPT ![p] = PrimaryFailed(r, Status(r, 400))]
               /\ UNCHANGED tasks
          ELSE \/ /\ req' = [req EXCEPT ![p] = PrimaryFailed(r, Status(r, 500))]
                  /\ UNCHANGED tasks
               \/ /\ ~doc.isNew /\ ~tasks[doc._id].present
                  /\ req' = [req EXCEPT ![p] = PrimaryFailed(r, Status(r, 500))]
                  /\ UNCHANGED tasks
               \/ /\ doc.isNew \/ tasks[doc._id].present
                  /\ tasks' = [tasks EXCEPT ![doc._id] =
                        IF doc.isNew
                        THEN MkDoc(doc._id, doc.f)
                        ELSE MkDoc(doc._id,
                                   [fld \in FieldNames |->
                                       IF fld \in doc.modified THEN doc.f[fld]
                                       ELSE tasks[doc._id].f[fld]])]
                  /\ req' = [MarkRaced(req, p, {doc._id}) EXCEPT ![p] =
                        [r EXCEPT !.pc = "postSave", !.applied = TRUE,
                                  !.before = tasks[doc._id],
                                  !.doc = [doc EXCEPT !.isNew = FALSE, !.modified = {}]]]
    /\ UNCHANGED <<users, history, nops, created, mode>>

\* Mutant: the hook writes a record on every save.
SaveWrites_Always(changeType, logs) == TRUE

\* Whether the post('save') hook issues the audit write.
SaveWrites(changeType, logs) == Len(logs) > 0 \/ changeType = "create"

\* post('save') hook, then the caller's continuation (createTask: 201).
PostSave(p) ==
    /\ req[p].pc = "postSave"
    /\ LET r == req[p]
           doc == r.doc
           userContext == doc.locals
           changeType == IF doc.isNew THEN "create" ELSE "update"
           logs == IF changeType = "create"
                   THEN getChangedFieldsForCreate(doc)
                   ELSE getChangedFieldsForUpdate(doc)
           st == Status(r, IF r.op = "createTask" THEN 201 ELSE 200)
       IN IF SaveWrites(changeType, logs)
          THEN \/ /\ history' = Append(history,
                                       AuditRecord(doc._id, changeType, logs, userContext, r.inv))
                  /\ req' = [req EXCEPT ![p] = Finish(r, st)]
               \/ /\ UNCHANGED history
                  /\ req' = [req EXCEPT ![p] = AuditWriteFailed(r, st)]
               \/ /\ UNCHANGED history
                  /\ req' = [req EXCEPT ![p] = AuditWriteHangs(r)]
          ELSE /\ UNCHANGED history
               /\ req' = [req EXCEPT ![p] = Finish(r, st)]
    /\ UNCHANGED <<tasks, users, nops, created, mode>>

\* ---- atomic update pathway ----------------------------------------------
\* Mutant: updateTask takes the owner of the body from any caller.
UpdateTask_AnyoneReassigns(p) ==
    /\ req[p].pc = "updateTask"
    /\ LET r == req[p]
           task == FindOne(tasks, r.id)
           isAdmin == Includes(r.roles, "admin")
           isOwner == task.f.owner = r.user
           updateData == [title |-> r.body.title,
                          description |-> r.body.description,
                          completed |-> r.body.completed,
                          owner |-> r.body.owner]
       IN req' = [req EXCEPT ![p] =
            IF ~task.present THEN Finish(r, 404)
            ELSE IF ~isOwner /\ ~isAdmin THEN Finish(r, 403)
            ELSE [r EXCEPT !.pc = "preUpdate", !.new = TRUE,
                           !.update = [set |-> EmptyFields, top |-> updateData, unset |-> {}],
                           !.auditUser = AuditUser(r.user, r.roles)]]
    /\ UNCHANGED <<tasks, users, history, nops, created, mode>>

\* updateTask, up to the call of Task.findByIdAndUpdate(id, updateData, options).
UpdateTask(p) ==
    /\ req[p].pc = "updateTask"
    /\ LET r == req[p]
           task == FindOne(tasks, r.id)
           isAdmin == Includes(r.roles, "admin")
           isOwner == task.f.owner = r.user
           updateData == [title |-> r.body.title,
                          description |-> r.body.description,
                          completed |-> r.body.completed,
                          owner |-> IF isAdmin THEN r.body.owner ELSE Undef]
       IN req' = [req EXCEPT ![p] =
            IF ~task.present THEN Finish(r, 404)
            ELSE IF ~isOwner /\ ~isAdmin THEN Finish(r, 403)
            ELSE IF Truthy(r.body.owner) /\ ~isAdmin THEN Finish(r, 403)
            ELSE [r EXCEPT !.pc = "preUpdate", !.new = TRUE,
                           !.update = [set |-> EmptyFields, top |-> updateData, unset |-> {}],
                           !.auditUser = AuditUser(r.user, r.roles)]]
    /\ UNCHANGED <<tasks, users, history, nops, created, mode>>

\* pre(['findOneAndUpdate', ...]) hook: this._originalDoc = await findOne(query).
\* The hook has no catch: a rejected fetch rejects the whole operation.
PreUpdate(p) ==
    /\ req[p].pc = "preUpdate"
    /\ LET r == req[p]
       IN \/ req' = [req EXCEPT ![p] =
                        [r EXCEPT !.pc = "update", !.originalDoc = FindOne(tasks, r.id)]]
          \/ req' = [req EXCEPT ![p] =
                        Finish([r EXCEPT !.fetchFailed = TRUE], Status(r, 500))]
    /\ UNCHANGED <<tasks, users, history, nops, created, mode>>

\* The value the update leaves in a field.
Applied(update, f, field) ==
    IF update.set[field] # Undef THEN update.set[field]
    ELSE IF update.top[field] # Undef THEN update.top[field]
    ELSE IF field \in update.unset THEN Undef
    ELSE f[field]

\* The value left in a field when the top-level key wins over the $set key.
AppliedTop(update, f, field) ==
    IF update.top[field] # Undef THEN update.top[field] ELSE Applied(update, f, field)

\* The documents the update can leave: when the payload names a field both
\* under $set and at the top level, either of the two values may be the one
\* stored.
UpdatedDocs(id, update, f) ==
    {MkDoc(id, [fld \in FieldNames |-> Applied(update, f, fld)]),
     MkDoc(id, [fld \in FieldNames |-> AppliedTop(update, f, fld)])}

\* The primary findOneAndUpdate: atomic in the store; resolves with the
\* updated document under {new: true}, with the document as it was before
\* the update otherwise, and with null when nothing matches.
Update(p) ==
    /\ req[p].pc = "update"
    /\ LET r == req[p]
           old == tasks[r.id]
       IN \/ /\ req' = [req EXCEPT ![p] = PrimaryFailed(r, Status(r, 500))]
             /\ UNCHANGED tasks
          \/ /\ ~old.present
             /\ req' = [req EXCEPT ![p] =
                          [r EXCEPT !.pc = "postUpdate", !.resDoc = NoDoc, !.before = old]]
             /\ UNCHANGED tasks
          \/ /\ old.present
             /\ \E new \in UpdatedDocs(r.id, r.update, old.f) :
                   /\ tasks' = [tasks EXCEPT ![r.id] = new]
                   /\ req' = [MarkRaced(req, p, {r.id}) EXCEPT ![p] =
                                [r EXCEPT !.pc = "postUpdate",
                                          !.resDoc = IF r.new THEN new ELSE old,
                                          !.before = old, !.applied = TRUE]]
    /\ UNCHANGED <<users, history, nops, created, mode>>

\* Mutant: the hook goes on without its snapshot.
PostUpdate_NoSnapshotGuard(p) ==
    /\ req[p].pc = "postUpdate"
    /\ LET r == req[p]
           doc == r.resDoc
           userContext == r.auditUser
           originalDoc == r.originalDoc
           logs == getChangedFieldsForAtomicUpdate(originalDoc, r.update, doc)
           st == Status(r, IF doc.present THEN 200 ELSE IF r.ctrl THEN 500 ELSE 200)
       IN IF doc.present /\ Len(logs) > 0
          THEN \/ /\ history' = Append(history,
                                       AuditRecord(doc._id, "update", logs, userContext, r.inv))
                  /\ req' = [req EXCEPT ![p] = Finish(r, st)]
               \/ /\ UNCHANGED history
                  /\ req' = [req EXCEPT ![p] = AuditWriteFailed(r, st)]
          ELSE /\ UNCHANGED history
               /\ req' = [req EXCEPT ![p] = Finish(r, st)]
    /\ UNCHANGED <<tasks, users, nops, created, mode>>

\* post(['findOneAndUpdate', ...]) hook, then the caller's continuation
\* (updateTask reads task._id of the result: a null result throws, 500).
PostUpdate(p) ==
    /\ req[p].pc = "postUpdate"
    /\ LET r == req[p]
           doc == r.resDoc
           userContext == r.auditUser
           originalDoc == r.originalDoc
           logs == getChangedFieldsForAtomicUpdate(originalDoc, r.update, doc)
           st == Status(r, IF doc.present THEN 200 ELSE IF r.ctrl THEN 500 ELSE 200)
       IN IF doc.present /\ originalDoc.present /\ Len(logs) > 0
          THEN \/ /\ history' = Append(history,
                                       AuditRecord(doc._id, "update", logs, userContext, r.inv))
                  /\ req' = [req EXCEPT ![p] = Finish(r, st)]
               \/ /\ UNCHANGED history
                  /\ req' = [req EXCEPT ![p] = AuditWriteFailed(r, st)]
               \/ /\ UNCHANGED history
                  /\ req' = [req EXCEPT ![p] = AuditWriteHangs(r)]
          ELSE /\ UNCHANGED history
               /\ req' = [req EXCEPT ![p] = Finish(r, st)]
    /\ UNCHANGED <<tasks, users, nops, created, mode>>

\* ---- atomic delete pathway ----------------------------------------------
\* Mutant: the task's owner is passed as the actor instead of the requester.
DeleteTask_OwnerAsActor(p) ==
    /\ req[p].pc = "deleteTask"
    /\ LET r == req[p]
           task == FindOne(tasks, r.id)
           isAdmin == Includes(r.roles, "admin")
           isOwner == task.f.owner = r.user
       IN req' = [req EXCEPT ![p] =
            IF ~task.present THEN Finish(r, 404)
            ELSE IF ~isOwner /\ ~isAdmin THEN Finish(r, 403)
            ELSE [r EXCEPT !.pc = "preDelete",
                           !.auditUser = AuditUser(task.f.owner, users[task.f.owner].roles)]]
    /\ UNCHANGED <<tasks, users, history, nops, created, mode>>

\* deleteTask, up to the call of Task.findByIdAndDelete(id, options).
DeleteTask(p) ==
    /\ req[p].pc = "deleteTask"
    /\ LET r == req[p]
           task == FindOne(tasks, r.id)
           isAdmin == Includes(r.roles, "admin")
           isOwner == task.f.owner = r.user
       IN req' = [req EXCEPT ![p] =
            IF ~task.present THEN Finish(r, 404)
            ELSE IF ~isOwner /\ ~isAdmin THEN Finish(r, 403)
            ELSE [r EXCEPT !.pc = "preDelete",
                           !.auditUser = AuditUser(r.user, r.roles)]]
    /\ UNCHANGED <<tasks, users, history, nops, created, mode>>

\* Mutant: the 'delete' record is written in the before phase.
PreDelete_WritesEarly(p) ==
    /\ req[p].pc = "preDelete"
    /\ LET r == req[p]
       IN /\ req' = [req EXCEPT ![p] =
                        [r EXCEPT !.pc = "delete", !.originalDoc = FindOne(tasks, r.id)]]
          /\ history' = Append(history,
                               AuditRecord(r.id, "delete", <<>>, r.auditUser, r.inv))
    /\ UNCHANGED <<tasks, users, nops, created, mode>>

\* pre(['findOneAndDelete', ...]) hook: this._deletedDoc = await findOne(query).
PreDelete(p) ==
    /\ req[p].pc = "preDelete"
    /\ LET r == req[p]
       IN \/ req' = [req EXCEPT ![p] =
                        [r EXCEPT !.pc = "delete", !.originalDoc = FindOne(tasks, r.id)]]
          \/ req' = [req EXCEPT ![p] =
                        Finish([r EXCEPT !.fetchFailed = TRUE], Status(r, 500))]
    /\ UNCHANGED <<tasks, users, history, nops, created, mode>>

\* The primary findOneAndDelete: resolves with the removed document or null.
Delete(p) ==
    /\ req[p].pc = "delete"
    /\ LET r == req[p]
           old == tasks[r.id]
       IN \/ /\ req' = [req EXCEPT ![p] = PrimaryFailed(r, Status(r, 500))]
             /\ UNCHANGED tasks
          \/ /\ ~old.present
             /\ req' = [req EXCEPT ![p] =
                          [r EXCEPT !.pc = "postDelete", !.resDoc = NoDoc, !.before = old]]
             /\ UNCHANGED tasks
          \/ /\ old.present
             /\ tasks' = [tasks EXCEPT ![r.id] = NoDoc]
             /\ req' = [MarkRaced(req, p, {r.id}) EXCEPT ![p] =
                          [r EXCEPT !.pc = "postDelete", !.resDoc = old,
                                    !.before = old, !.applied = TRUE]]
    /\ UNCHANGED <<users, history, nops, created, mode>>

\* Mutant: only the document returned by the delete is used.
DeletedDoc_ReturnedOnly(deletedDoc, doc) == doc

\* const deletedDoc = this._deletedDoc || doc
DeletedDoc(deletedDoc, doc) == IF deletedDoc.present THEN deletedDoc ELSE doc

\* Mutant: a refused audit write leaves the hook in its after phase, to try again.
PostDelete_Retries(p) ==
    /\ req[p].pc = "postDelete"
    /\ LET r == req[p]
           userContext == r.auditUser
           deletedDoc == DeletedDoc(r.originalDoc, r.resDoc)
           st == Status(r, 200)
       IN IF deletedDoc.present
          THEN \/ /\ history' = Append(history,
                        AuditRecord(deletedDoc._id, "delete", DeleteSentinel, userContext, r.inv))
                  /\ req' = [req EXCEPT ![p] = Finish(r, st)]
               \/ /\ ~r.storeFailed
                  /\ UNCHANGED history
                  /\ req' = [req EXCEPT ![p] = [r EXCEPT !.storeFailed = TRUE]]
          ELSE /\ UNCHANGED history
               /\ req' = [req EXCEPT ![p] = Finish(r, st)]
    /\ UNCHANGED <<tasks, users, nops, created, mode>>

\* post(['findOneAndDelete', ...]) hook, then the caller's continuation.
PostDelete(p) ==
    /\ req[p].pc = "postDelete"
    /\ LET r == req[p]
           userContext == r.auditUser
           deletedDoc == DeletedDoc(r.originalDoc, r.resDoc)
           st == Status(r, 200)
       IN IF deletedDoc.present
          THEN \/ /\ history' = Append(history,
                        AuditRecord(deletedDoc._id, "delete", DeleteSentinel, userContext, r.inv))
                  /\ req' = [req EXCEPT ![p] = Finish(r, st)]
               \/ /\ UNCHANGED history
                  /\ req' = [req EXCEPT ![p] = AuditWriteFailed(r, st)]
               \/ /\ UNCHANGED history
                  /\ req' = [req EXCEPT ![p] = AuditWriteHangs(r)]
          ELSE /\ UNCHANGED history
               /\ req' = [req EXCEPT ![p] = Finish(r, st)]
    /\ UNCHANGED <<tasks, users, nops, created, mode>>

\* ---- direct model calls (no controller, no actor context) ---------------
\* Payloads of a direct caller, written with $set.
Updates == {[set |-> b, top |-> EmptyFields, unset |-> {}] : b \in UpdateBodies}

\* Payloads that use both forms: one field named twice, two fields named once each.
MixedUpdates ==
    IF mode = "race" THEN {}
    ELSE {[set |-> One("title", "b"), top |-> One("title", "a"), unset |-> {}],
          [set |-> One("completed", "true"), top |-> One("description", "d"), unset |-> {}]}

\* Payloads that clear the optional field: to null, and by removing the path.
ClearUpdates ==
    IF mode = "race" THEN {}
    ELSE {[set |-> One("description", Null), top |-> EmptyFields, unset |-> {}],
          [set |-> EmptyFields, top |-> EmptyFields, unset |-> {"description"}]}

StartReq(op, pc, id) ==
    [IdleReq EXCEPT !.op = op, !.pc = pc, !.inv = nops + 1, !.id = id]

\* new Task(fields).save() with no $locals.auditUser.
ModelCreate(p) ==
    /\ CanStart(p)
    /\ TaskIds \ created # {}
    /\ \E data \in CreateBodies :
        LET id == CHOOSE x \in TaskIds \ created : TRUE
        IN /\ req' = [req EXCEPT ![p] =
                        [StartReq("create", "save", id) EXCEPT
                            !.doc = NewTask(id, data, NoActor)]]
           /\ created' = created \cup {id}
    /\ nops' = nops + 1
    /\ UNCHANGED <<tasks, users, history, mode>>

\* doc.set(field, value): the path is marked modified when the value differs
\* from the one the document holds.
SetFields(doc, body) ==
    [doc EXCEPT !.f = [fld \in FieldNames |->
                          IF body[fld] # Undef THEN body[fld] ELSE doc.f[fld]],
                !.modified = {fld \in FieldNames :
                                 body[fld] # Undef /\ body[fld] # doc.f[fld]}]

\* In-memory update: doc = await Task.findById(id); assign fields; doc.save().
ModelLoadAndSet(p) ==
    /\ CanStart(p)
    /\ \E id \in KnownIds, body \in SetBodies :
        LET task == FindOne(tasks, id)
            loaded == [present |-> TRUE, _id |-> id, f |-> task.f, isNew |-> FALSE,
                       modified |-> {}, locals |-> NoActor]
            r0 == [StartReq("saveUpdate", "save", id) EXCEPT !.body = body]
        IN req' = [req EXCEPT ![p] =
                     IF ~task.present
                     THEN Finish(r0, 500)
                     ELSE [r0 EXCEPT !.prev = task.f, !.doc = SetFields(loaded, body)]]
    /\ nops' = nops + 1
    /\ UNCHANGED <<tasks, users, history, created, mode>>

\* Task.findOneAndUpdate({_id: id}, update, {new}) with no auditUser option.
ModelFindOneAndUpdate(p) ==
    /\ CanStart(p)
    /\ \E id \in KnownIds, update \in Updates \cup MixedUpdates \cup ClearUpdates,
          new \in BOOLEAN :
        req' = [req EXCEPT ![p] =
                  [StartReq("findOneAndUpdate", "preUpdate", id) EXCEPT
                      !.update = update, !.new = new]]
    /\ nops' = nops + 1
    /\ UNCHANGED <<tasks, users, history, created, mode>>

\* Task.findOneAndDelete({_id: id}) with no auditUser option.
ModelFindOneAndDelete(p) ==
    /\ CanStart(p)
    /\ \E id \in KnownIds :
        req' = [req EXCEPT ![p] = StartReq("findOneAndDelete", "preDelete", id)]
    /\ nops' = nops + 1
    /\ UNCHANGED <<tasks, users, history, created, mode>>

\* ---- user management ----------------------------------------------------
\* changeUserRole, up to the call of user.save().
ChangeUserRole(p) ==
    /\ req[p].pc = "changeUserRole"
    /\ LET r == req[p]
       IN req' = [req EXCEPT ![p] =
            IF ~users[r.target].exists THEN Finish(r, 404)
            ELSE IF r.target = r.user /\ ~Includes(r.newRoles, "admin") THEN Finish(r, 400)
            ELSE [r EXCEPT !.pc = "roleSave"]]
    /\ UNCHANGED <<tasks, users, history, nops, created, mode>>

\* user.save(): the roles are written; the write misses a user deleted since.
RoleSave(p) ==
    /\ req[p].pc = "roleSave"
    /\ LET r == req[p]
       IN IF users[r.target].exists
          THEN /\ users' = [users EXCEPT ![r.target].roles = r.newRoles]
               /\ req' = [req EXCEPT ![p] = Finish(r, 200)]
          ELSE /\ UNCHANGED users
               /\ req' = [req EXCEPT ![p] = Finish(r, 500)]
    /\ UNCHANGED <<tasks, history, nops, created, mode>>

\* deleteUser, up to the call of Task.deleteMany.
DeleteUser(p) ==
    /\ req[p].pc = "deleteUser"
    /\ LET r == req[p]
       IN req' = [req EXCEPT ![p] =
            IF ~users[r.target].exists THEN Finish(r, 404)
            ELSE IF r.target = r.user THEN Finish(r, 400)
            ELSE [r EXCEPT !.pc = "deleteMany"]]
    /\ UNCHANGED <<tasks, users, history, nops, created, mode>>

\* Task.deleteMany({owner: user._id}): no hook is registered for deleteMany.
DeleteMany(p) ==
    /\ req[p].pc = "deleteMany"
    /\ LET r == req[p]
           gone == {id \in TaskIds : tasks[id].present /\ tasks[id].f.owner = r.target}
       IN /\ tasks' = [id \in TaskIds |-> IF id \in gone THEN NoDoc ELSE tasks[id]]
          /\ req' = [MarkRaced(req, p, gone) EXCEPT ![p] =
                       [r EXCEPT !.pc = "removeUser", !.removed = gone]]
    /\ UNCHANGED <<users, history, nops, created, mode>>

\* Mutant: deleting a user also deletes the audit records the user made.
RemoveUser_PurgesHistory(p) ==
    /\ req[p].pc = "removeUser"
    /\ users' = [users EXCEPT ![req[p].target].exists = FALSE]
    /\ history' = SelectSeq(history, LAMBDA h : h.created_by.id # req[p].target)
    /\ req' = [req EXCEPT ![p] = Finish(req[p], 200)]
    /\ UNCHANGED <<tasks, nops, created, mode>>

\* User.findByIdAndDelete(req.params.id).
RemoveUser(p) ==
    /\ req[p].pc = "removeUser"
    /\ users' = [users EXCEPT ![req[p].target].exists = FALSE]
    /\ req' = [req EXCEPT ![p] = Finish(req[p], 200)]
    /\ UNCHANGED <<tasks, history, nops, created, mode>>

\* ---- audit-log queries --------------------------------------------------
RECURSIVE CountFor(_, _)
CountFor(h, id) ==
    IF h = <<>> THEN 0
    ELSE (IF Head(h).model_id = id THEN 1 ELSE 0) + CountFor(Tail(h), id)

\* getAuditLogs with no filter: countDocuments and find over task_histories.
GetAuditLogs(p) ==
    /\ req[p].pc = "getAuditLogs"
    /\ req' = [req EXCEPT ![p] = Finish([req[p] EXCEPT !.total = Len(history)], 200)]
    /\ UNCHANGED <<tasks, users, history, nops, created, mode>>

\* getTaskAuditLogs: find({model_id: taskId}).
GetTaskAuditLogs(p) ==
    /\ req[p].pc = "getTaskAuditLogs"
    /\ req' = [req EXCEPT ![p] =
                 Finish([req[p] EXCEPT !.total = CountFor(history, req[p].id)], 200)]
    /\ UNCHANGED <<tasks, users, history, nops, created, mode>>

\* ---- specification ------------------------------------------------------
Next ==
    \E p \in Procs :
        \/ Authenticate(p)
        \/ CreateTask(p)
        \/ SavePrimary(p)
        \/ PostSave(p)
        \/ UpdateTask(p)
        \/ PreUpdate(p)
        \/ Update(p)
        \/ PostUpdate(p)
        \/ DeleteTask(p)
        \/ PreDelete(p)
        \/ Delete(p)
        \/ PostDelete(p)
        \/ ModelCreate(p)
        \/ ModelLoadAndSet(p)
        \/ ModelFindOneAndUpdate(p)
        \/ ModelFindOneAndDelete(p)
        \/ ChangeUserRole(p)
        \/ RoleSave(p)
        \/ DeleteUser(p)
        \/ DeleteMany(p)
        \/ RemoveUser(p)
        \/ GetAuditLogs(p)
        \/ GetTaskAuditLogs(p)

Spec == Init /\ [][Next]_vars

\* ---- two admins --------------------------------------------------------
\* The state after admin u1 has given u2 the admin role (changeUserRole),
\* with two requests about to run concurrently.
InitAdmins ==
    /\ mode = "race"
    /\ tasks = [id \in TaskIds |-> IF id = "t1" THEN SeedTask ELSE NoDoc]
    /\ created = {"t1"}
    /\ users = [u \in UserIds |-> [exists |-> TRUE, roles |-> <<"admin">>]]
    /\ history = <<>>
    /\ req = [p \in Procs |-> IdleReq]
    /\ nops = 0

SpecAdmins == InitAdmins /\ [][Next]_vars

\* ---- the save pathway's diff helper on its own --------------------------
\* A stored task with any field values, loaded and assigned to by
\* ModelLoadAndSet; getChangedFieldsForUpdate is then applied to the document
\* while its modified paths are still marked.
StoredFields == [title : Titles, description : Descs, completed : Bools, owner : UserIds]

InitDiff ==
    /\ mode = "diff"
    /\ \E f \in StoredFields :
           tasks = [id \in TaskIds |-> IF id = "t1" THEN MkDoc("t1", f) ELSE NoDoc]
    /\ created = {"t1"}
    /\ users = [u \in UserIds |->
                  [exists |-> TRUE, roles |-> IF u = "u1" THEN <<"admin">> ELSE <<"user">>]]
    /\ history = <<>>
    /\ req = [p \in Procs |-> IdleReq]
    /\ nops = 0

ApplyUpdateDiff(p) ==
    /\ req[p].pc = "save"
    /\ req' = [req EXCEPT ![p] =
                 Finish([req[p] EXCEPT !.op = "getChangedFieldsForUpdate",
                                       !.logs = getChangedFieldsForUpdate(req[p].doc)], 200)]
    /\ UNCHANGED <<tasks, users, history, nops, created, mode>>

NextDiff == \E p \in Procs : ModelLoadAndSet(p) \/ ApplyUpdateDiff(p)

SpecDiff == InitDiff /\ [][NextDiff]_vars

\* ---- properties ---------------------------------------------------------
Done(p) == req[p].pc = "done"

\* The audit records the invocation inv wrote, in order.
RecordsOf(inv) == SelectSeq(history, LAMBDA h : h.inv = inv)

FieldsIn(logs) == {logs[i].field_name : i \in 1..Len(logs)}

\* The value an update payload gives a field (undefined: the key is absent).
PayloadValue(update, field) ==
    IF update.set[field] # Undef THEN update.set[field] ELSE update.top[field]

SetKeys(update) == {field \in FieldNames : PayloadValue(update, field) # Undef}

\* The fields an in-memory update gave a new value.
ChangedBySet(r) == {field \in FieldNames : r.body[field] # Undef /\ r.body[field] # r.prev[field]}

\* One entry {field, null, value} per field of f that is not absent.
CreateEntries(f) ==
    Collect(1, [field \in FieldNames |->
        [emit |-> f[field] # Undef, entry |-> Entry(field, Null, f[field])]])

\* C1: every successful create (createTask or a direct new Task(...).save())
\* whose audit write is not refused leaves exactly one audit record of that
\* invocation, for the created task, with change_type 'create' and one entry
\* {field, from null, to the saved value} per non-absent audited field.
C1_CreateWritesOneRecord ==
    \A p \in Procs :
        (Done(p) /\ req[p].op \in {"createTask", "create"} /\ req[p].applied
                 /\ ~req[p].storeFailed)
        => /\ Len(RecordsOf(req[p].inv)) = 1
           /\ RecordsOf(req[p].inv)[1].change_type = "create"
           /\ RecordsOf(req[p].inv)[1].model_id = req[p].id
           /\ RecordsOf(req[p].inv)[1].logs = CreateEntries(req[p].doc.f)

\* C2: the step in which an audit write is refused leaves the task store as
\* the primary mutation left it, appends nothing, and completes the request
\* with the success status of the operation (201 for createTask, 200 for the
\* others): the error does not reach the caller.
C2_AuditFailureIsolated ==
    [][\A p \in Procs :
          (req'[p].storeFailed /\ ~req[p].storeFailed)
          => /\ tasks' = tasks
             /\ history' = history
             /\ req'[p].pc = "done"
             /\ req'[p].status = IF req[p].op = "createTask" THEN 201 ELSE 200]_vars

C2_Witness ==
    \E p \in Procs :
        /\ Done(p) /\ req[p].storeFailed /\ req[p].applied
        /\ req[p].op = "deleteTask" /\ req[p].status = 200
        /\ ~tasks[req[p].id].present

\* C3: the audit store is append-only: every step keeps every record already
\* written, at its position and with all its fields (the actor snapshot
\* included), whatever happens to tasks and users.
C3_AppendOnly ==
    [][/\ Len(history') >= Len(history)
       /\ \A i \in 1..Len(history) : history'[i] = history[i]]_vars

C3_Witness ==
    \E i \in 1..Len(history) :
        /\ history[i].created_by = [id |-> "u2", name |-> Email("u2"), role |-> "user"]
        /\ ~users["u2"].exists

\* C4: an atomic delete that removed an existing task, with no concurrent
\* mutation of that task and an audit store that accepts the write, leaves
\* exactly one record of that invocation: change_type 'delete', model_id the
\* task's id, logs the single entry {status, active, deleted}.
C4_DeleteWritesSentinel ==
    \A p \in Procs :
        (Done(p) /\ req[p].op \in {"deleteTask", "findOneAndDelete"} /\ req[p].applied
                 /\ ~req[p].raced /\ ~req[p].storeFailed)
        => /\ Len(RecordsOf(req[p].inv)) = 1
           /\ RecordsOf(req[p].inv)[1].change_type = "delete"
           /\ RecordsOf(req[p].inv)[1].model_id = req[p].id
           /\ RecordsOf(req[p].inv)[1].logs = <<Entry("status", "active", "deleted")>>

C4_Witness ==
    \E p \in Procs :
        /\ Done(p) /\ req[p].op = "deleteTask" /\ req[p].applied
        /\ ~req[p].raced /\ ~req[p].storeFailed
        /\ Len(RecordsOf(req[p].inv)) = 1
        /\ ~tasks[req[p].id].present

\* C5: an atomic update of an existing task whose payload sets exactly one
\* audited field, to a value other than the stored one, with no concurrent
\* mutation of the task and an audit store that accepts the write, leaves
\* exactly one record of that invocation: change_type 'update' and the single
\* entry {that field, the stored value before the update, the payload value}.
C5_SingleFieldUpdateOneEntry ==
    \A p \in Procs : \A field \in FieldNames :
        (Done(p) /\ req[p].op \in {"updateTask", "findOneAndUpdate"} /\ req[p].applied
                 /\ ~req[p].raced /\ ~req[p].storeFailed
                 /\ SetKeys(req[p].update) = {field}
                 /\ PayloadValue(req[p].update, field) # req[p].before.f[field])
        => /\ Len(RecordsOf(req[p].inv)) = 1
           /\ RecordsOf(req[p].inv)[1].change_type = "update"
           /\ RecordsOf(req[p].inv)[1].logs =
                 <<Entry(field, req[p].before.f[field], PayloadValue(req[p].update, field))>>

\* C6: an in-memory update (load, assign, save) that gives a non-empty set S
\* of audited fields a new value and is saved leaves exactly one record of
\* that invocation, with change_type 'update' and entries naming exactly the
\* fields of S.
C6_SaveUpdateLogsExactlyS ==
    \A p \in Procs :
        (Done(p) /\ req[p].op = "saveUpdate" /\ req[p].applied /\ ~req[p].storeFailed
                 /\ ChangedBySet(req[p]) # {})
        => /\ Len(RecordsOf(req[p].inv)) = 1
           /\ RecordsOf(req[p].inv)[1].change_type = "update"
           /\ FieldsIn(RecordsOf(req[p].inv)[1].logs) = ChangedBySet(req[p])
           /\ Len(RecordsOf(req[p].inv)[1].logs) = Cardinality(ChangedBySet(req[p]))

C8_NoChangeNoRecord ==
    \A p \in Procs :
        (Done(p) /\ req[p].op = "saveUpdate" /\ req[p].applied /\ ChangedBySet(req[p]) = {})
        => RecordsOf(req[p].inv) = <<>>

C8_Witness ==
    \E p \in Procs :
        /\ Done(p) /\ req[p].op = "saveUpdate" /\ req[p].applied /\ req[p].status = 200
        /\ req[p].body # EmptyFields /\ ChangedBySet(req[p]) = {}
        /\ RecordsOf(req[p].inv) = <<>>

\* C9: an invocation that supplies no actor context (no $locals.auditUser, no
\* auditUser option) writes its records with created_by null; once its
\* primary mutation is applied it resolves normally; and its atomic update
\* or delete still writes the one record of the document it captured and
\* got back.
C9_NoActorNullCreatedBy ==
    \A p \in Procs :
        (Done(p) /\ req[p].op # "none" /\ req[p].auditUser = NoActor
                 /\ req[p].doc.locals = NoActor)
        => /\ \A i \in 1..Len(history) :
                 history[i].inv = req[p].inv => history[i].created_by = NullActor
           /\ req[p].applied => req[p].status = 200
           /\ (/\ req[p].op \in {"findOneAndUpdate", "findOneAndDelete"}
               /\ req[p].status = 200 /\ ~req[p].storeFailed
               /\ req[p].originalDoc.present /\ req[p].resDoc.present)
              => Len(RecordsOf(req[p].inv)) = 1

C9_Witness ==
    \E p \in Procs :
        /\ Done(p) /\ req[p].op = "findOneAndUpdate" /\ req[p].auditUser = NoActor
        /\ req[p].applied /\ req[p].status = 200
        /\ Len(RecordsOf(req[p].inv)) = 1
        /\ RecordsOf(req[p].inv)[1].created_by = NullActor

\* C10: when the before-phase snapshot fetch of an atomic update or delete
\* fails, the operation still resolves with its normal result.
C10_FetchFailureDegrades ==
    \A p \in Procs :
        (Done(p) /\ req[p].fetchFailed) => req[p].status = 200

\* C11: an invocation whose primary mutation failed (save rejected by
\* validation or by the store, findOneAndUpdate / findOneAndDelete raising)
\* ends with an error for the caller (400 or 500 from a controller, a
\* rejected promise from a direct call), has applied nothing, and has written
\* no audit record.
C11_PrimaryFailureNoRecord ==
    \A p \in Procs :
        (Done(p) /\ req[p].failed)
        => /\ req[p].status \in {400, 500}
           /\ ~req[p].applied
           /\ RecordsOf(req[p].inv) = <<>>

C11_Witness ==
    \E p, q \in Procs :
        /\ Done(p) /\ req[p].failed /\ req[p].op = "updateTask" /\ req[p].status = 500
        /\ req[p].originalDoc.present
        /\ Done(q) /\ req[q].failed /\ req[q].op = "create" /\ ~Valid(req[q].doc.f)

\* The tasks a completed invocation removed from the task store.
RemovedBy(r) ==
    IF r.op \in {"deleteTask", "findOneAndDelete"} /\ r.applied THEN {r.id}
    ELSE IF r.op = "deleteUser" THEN r.removed
    ELSE {}

\* C12: every task an API operation removed from the task store (deleteTask,
\* or deleteUser deleting the user's tasks) has a 'delete' audit record,
\* provided the audit store refused no write of that invocation.
C12_EveryRemovalLogged ==
    \A p \in Procs :
        (Done(p) /\ req[p].ctrl /\ req[p].status = 200 /\ ~req[p].storeFailed)
        => \A id \in RemovedBy(req[p]) :
              \E i \in 1..Len(history) :
                  history[i].change_type = "delete" /\ history[i].model_id = id

\* C13: an update or delete requested through updateTask / deleteTask by a
\* user who is not an admin is applied only to a task that user owns at the
\* moment findByIdAndUpdate / findByIdAndDelete is applied (before is the
\* stored task as the atomic operation found it).
C13_AppliedOnlyForOwnerOrAdmin ==
    \A p \in Procs :
        (/\ req[p].op \in {"updateTask", "deleteTask"}
         /\ req[p].applied
         /\ ~Includes(req[p].roles, "admin"))
        => req[p].before.f.owner = req[p].user

PrimaryPhase == {"save", "update", "delete"}

AfterPhase == {"postSave", "postUpdate", "postDelete"}

\* C15: within one invocation the phases run in order.  The primary mutation
\* is entered only from the before phase (atomic pathways) and the after
\* phase only from the primary mutation; the snapshot taken in the before
\* phase is fixed from then on; the task store is changed by an invocation
\* only in its primary step; and an audit record is appended only by a step
\* that leaves the after phase of the invocation the record belongs to, so
\* never before that invocation's primary mutation has run.
C15_PhasesInOrder ==
    [][\A p \in Procs :
          LET r == req[p]
              n == req'[p]
          IN /\ (n.pc \in {"update", "delete"} /\ n.pc # r.pc)
                => r.pc = (IF n.pc = "update" THEN "preUpdate" ELSE "preDelete")
             /\ (n.pc \in AfterPhase /\ n.pc # r.pc)
                => /\ r.pc \in PrimaryPhase
                   /\ n.pc = (CASE r.pc = "save" -> "postSave"
                                [] r.pc = "update" -> "postUpdate"
                                [] r.pc = "delete" -> "postDelete")
             /\ (r.pc \in PrimaryPhase \cup AfterPhase /\ n.inv = r.inv)
                => n.originalDoc = r.originalDoc
             /\ (~r.applied /\ n.applied) => (r.pc \in PrimaryPhase /\ n.pc \in AfterPhase)
             /\ (\E i \in 1..Len(history') : i > Len(history) /\ history'[i].inv = r.inv)
                => /\ r.pc \in AfterPhase /\ n.pc = "done"
                   /\ Len(history') = Len(history) + 1]_vars

C15_Witness ==
    \E p \in Procs :
        /\ req[p].pc = "postDelete" /\ req[p].applied /\ req[p].originalDoc.present
        /\ ~tasks[req[p].id].present
        /\ RecordsOf(req[p].inv) = <<>>

\* C16: an invocation attempts its audit write at most once.  No invocation
\* has more than one record; an invocation whose write was refused has no
\* record and is finished; an invocation that has its record is finished.
C16_AtMostOneAttempt ==
    /\ \A i \in 1..nops : Len(RecordsOf(i)) <= 1
    /\ \A p \in Procs :
          /\ req[p].storeFailed => (Done(p) /\ RecordsOf(req[p].inv) = <<>>)
          /\ RecordsOf(req[p].inv) # <<>> => Done(p)

C16_Witness ==
    \E p \in Procs :
        /\ Done(p) /\ req[p].storeFailed /\ req[p].op = "findOneAndDelete"
        /\ req[p].applied /\ RecordsOf(req[p].inv) = <<>>

\* C17: an invocation whose primary mutation is committed and which has not
\* yet returned to its caller can always take the step that completes its
\* hook chain, whatever the audit write does.
C17_HangDoesNotBlock ==
    \A p \in Procs :
        (req[p].applied /\ ~Done(p))
        => ENABLED (PostSave(p) \/ PostUpdate(p) \/ PostDelete(p))

\* The 'delete' records written for task id.
DeleteRecords(id) ==
    SelectSeq(history, LAMBDA h : h.change_type = "delete" /\ h.model_id = id)

\* C18: a 'delete' record is written once per deletion.  No task has more
\* than one 'delete' record (a task id is never handed out twice, so a task is
\* removed at most once), and a finished atomic delete that removed nothing
\* has written no record.
C18_DeleteRecordOncePerDeletion ==
    /\ \A id \in TaskIds : Len(DeleteRecords(id)) <= 1
    /\ \A p \in Procs :
          (Done(p) /\ req[p].op \in {"deleteTask", "findOneAndDelete"} /\ ~req[p].applied)
          => RecordsOf(req[p].inv) = <<>>

\* C19: in the records of an atomic update every entry has a to_value that
\* is defined and differs by value from its from_value, and a record is
\* written only with at least one entry: a field set to the value it already
\* has (owner set to the same user id included) yields no entry, and an
\* update that changes no audited field yields no record.
C19_EntriesDifferByValue ==
    \A i \in 1..Len(history) :
        history[i].change_type = "update"
        => /\ Len(history[i].logs) > 0
           /\ \A k \in 1..Len(history[i].logs) :
                 /\ history[i].logs[k].to_value # Undef
                 /\ history[i].logs[k].from_value # history[i].logs[k].to_value

\* C20: in a record of an atomic update the to_value of the entry of field f
\* is the value under $set if the payload defines f there, else the payload's
\* top-level value of f if defined, else the value of f on the document the
\* update returned; and every field whose value so resolved is defined and
\* differs from the snapshot's has its entry.
C20_ResolvedValuePrecedence ==
    \A p \in Procs :
        (Done(p) /\ req[p].op \in {"updateTask", "findOneAndUpdate"}
                 /\ RecordsOf(req[p].inv) # <<>>)
        => LET r == req[p]
               logs == RecordsOf(r.inv)[1].logs
               resolved(f) == IF r.update.set[f] # Undef THEN r.update.set[f]
                              ELSE IF r.update.top[f] # Undef THEN r.update.top[f]
                              ELSE r.resDoc.f[f]
           IN /\ \A k \in 1..Len(logs) : logs[k].to_value = resolved(logs[k].field_name)
              /\ \A f \in FieldNames :
                    (resolved(f) # Undef /\ resolved(f) # r.originalDoc.f[f])
                    => f \in FieldsIn(logs)

C20_Witness ==
    \E p \in Procs :
        /\ Done(p) /\ req[p].op = "findOneAndUpdate"
        /\ req[p].update.set.title = "b" /\ req[p].update.top.title = "a"
        /\ req[p].originalDoc.f.title = "a" /\ req[p].resDoc.f.title = "a"
        /\ RecordsOf(req[p].inv) # <<>>
        /\ \E k \in 1..Len(RecordsOf(req[p].inv)[1].logs) :
              RecordsOf(req[p].inv)[1].logs[k] = Entry("title", "a", "b")

\* A finished atomic update whose hook had both its snapshot and the returned
\* document, with no other mutation of the task in between and no refused
\* audit write.
CleanUpdate(r) ==
    /\ r.pc = "done" /\ r.op \in {"updateTask", "findOneAndUpdate"} /\ r.applied
    /\ ~r.raced /\ ~r.storeFailed /\ r.originalDoc.present

\* The entries of field in the records of invocation r.
EntriesOf(r, field) ==
    IF RecordsOf(r.inv) = <<>> THEN <<>>
    ELSE SelectSeq(RecordsOf(r.inv)[1].logs, LAMBDA e : e.field_name = field)

\* C21 as stated: null and undefined differ in both directions.  Clearing a
\* field to null over an undefined snapshot is logged, removing a field
\* (clearing it to undefined) over a null snapshot is logged too, and false
\* set to false is not logged.
C21_NullUndefinedBothWays ==
    \A p \in Procs : \A field \in FieldNames :
        CleanUpdate(req[p])
        => LET r == req[p] IN
           /\ (r.update.set[field] = Null /\ r.originalDoc.f[field] = Undef)
                 => EntriesOf(r, field) = <<Entry(field, Undef, Null)>>
           /\ (field \in r.update.unset /\ r.originalDoc.f[field] = Null)
                 => EntriesOf(r, field) = <<Entry(field, Null, Undef)>>
           /\ (PayloadValue(r.update, field) = "false" /\ r.originalDoc.f[field] = "false")
                 => EntriesOf(r, field) = <<>>

\* C21 (amended): clearing a field to null over an undefined snapshot is
\* logged as {field, undefined, null}; a field whose resolved new value is
\* undefined (the path removed) gets no entry, whatever the snapshot held,
\* null included; false set to false gets no entry.
C21_NullOverUndefinedOnly ==
    \A p \in Procs : \A field \in FieldNames :
        CleanUpdate(req[p])
        => LET r == req[p] IN
           /\ (r.update.set[field] = Null /\ r.originalDoc.f[field] = Undef)
                 => EntriesOf(r, field) = <<Entry(field, Undef, Null)>>
           /\ (field \in r.update.unset /\ r.originalDoc.f[field] = Null)
                 => EntriesOf(r, field) = <<>>
           /\ (PayloadValue(r.update, field) = "false" /\ r.originalDoc.f[field] = "false")
                 => EntriesOf(r, field) = <<>>

C21_Witness ==
    \E p \in Procs :
        /\ CleanUpdate(req[p])
        /\ "description" \in req[p].update.unset
        /\ req[p].originalDoc.f.description = Null
        /\ req[p].new /\ req[p].resDoc.f.description = Undef
        /\ tasks[req[p].id].f.description = Undef
        /\ EntriesOf(req[p], "description") = <<>>
        /\ RecordsOf(req[p].inv) # <<>>

\* C22: when the after-phase hook of an atomic update has no returned
\* document (the update matched nothing) or no snapshot, its step appends no
\* record, attempts no audit write, and finishes the operation; a direct
\* caller gets the operation's result (the promise resolves).
C22_NoDocOrSnapshotNoRecord ==
    [][\A p \in Procs :
          (/\ req[p].pc = "postUpdate" /\ req'[p].pc # "postUpdate"
           /\ (~req[p].resDoc.present \/ ~req[p].originalDoc.present))
          => /\ history' = history
             /\ req'[p].pc = "done"
             /\ ~req'[p].storeFailed
             /\ ~req[p].ctrl => req'[p].status = 200]_vars

C22_Witness ==
    \E p \in Procs :
        /\ Done(p) /\ req[p].op = "findOneAndUpdate" /\ req[p].applied
        /\ ~req[p].originalDoc.present /\ req[p].resDoc.present
        /\ RecordsOf(req[p].inv) = <<>> /\ req[p].status = 200

\* C23: every 'update' record has a non-empty list of field changes and
\* records an actual change (an entry whose two values differ): an update
\* that changes nothing writes no record.
C23_UpdateRecordsNonEmpty ==
    \A i \in 1..Len(history) :
        history[i].change_type = "update"
        => /\ Len(history[i].logs) > 0
           /\ \E k \in 1..Len(history[i].logs) :
                 history[i].logs[k].from_value # history[i].logs[k].to_value

\* C24: the record of an atomic delete whose after-phase hook has run names
\* the document captured in the before phase, or, when nothing was captured,
\* the document the delete returned; with either of them at hand and the
\* audit store accepting the write the record is written, and with neither
\* the hook writes nothing and attempts nothing.
C24_DeleteRecordIdentity ==
    \A p \in Procs :
        (/\ Done(p) /\ req[p].op \in {"deleteTask", "findOneAndDelete"}
         /\ req[p].status = 200 /\ ~req[p].failed /\ ~req[p].fetchFailed)
        => LET r == req[p]
               recs == RecordsOf(r.inv)
           IN /\ r.originalDoc.present
                    => /\ \A i \in 1..Len(recs) : recs[i].model_id = r.originalDoc._id
                       /\ ~r.storeFailed => Len(recs) = 1
              /\ (~r.originalDoc.present /\ r.resDoc.present)
                    => /\ \A i \in 1..Len(recs) : recs[i].model_id = r.resDoc._id
                       /\ ~r.storeFailed => Len(recs) = 1
              /\ (~r.originalDoc.present /\ ~r.resDoc.present)
                    => (recs = <<>> /\ ~r.storeFailed)

C24_Witness ==
    \E p \in Procs :
        /\ Done(p) /\ req[p].op = "findOneAndDelete" /\ req[p].status = 200
        /\ ~req[p].originalDoc.present /\ req[p].resDoc.present
        /\ Len(RecordsOf(req[p].inv)) = 1
        /\ RecordsOf(req[p].inv)[1].model_id = req[p].resDoc._id
        /\ RecordsOf(req[p].inv)[1].change_type = "delete"

\* The actor an invocation supplies: the authenticated requester for a
\* controller ({id, name: email, role: first role or 'user'}), none for a
\* direct model call.
SuppliedActor(r) ==
    IF r.ctrl
    THEN [id |-> r.user, name |-> Email(r.user),
          role |-> IF Len(r.roles) > 0 THEN r.roles[1] ELSE "user"]
    ELSE NullActor

\* C25: the created_by of every audit record is the actor supplied to the
\* invocation that wrote it, and null when that invocation supplied none,
\* whatever other invocations run at the same time.
C25_ActorScopedToInvocation ==
    \A p \in Procs : \A i \in 1..Len(history) :
        history[i].inv = req[p].inv => history[i].created_by = SuppliedActor(req[p])

C25_Witness ==
    \E p, q \in Procs :
        /\ p # q /\ Done(p) /\ Done(q)
        /\ req[p].op = "updateTask" /\ req[q].op = "deleteTask" /\ req[p].id = req[q].id
        /\ req[p].user = "u1" /\ req[q].user = "u2"
        /\ req[p].raced \/ req[q].raced
        /\ Len(RecordsOf(req[p].inv)) = 1 /\ Len(RecordsOf(req[q].inv)) = 1
        /\ RecordsOf(req[p].inv)[1].created_by.id = "u1"
        /\ RecordsOf(req[q].inv)[1].created_by.id = "u2"

\* C26: every entry of an atomic update's record takes its from_value from
\* the snapshot that very invocation captured in its before phase (which,
\* when two updates race, need not be the value the store held when the
\* update was applied: C26_Witness).
C26_FromValueIsOwnSnapshot ==
    \A p \in Procs :
        (Done(p) /\ req[p].op \in {"updateTask", "findOneAndUpdate"})
        => \A i \in 1..Len(RecordsOf(req[p].inv)) :
              \A k \in 1..Len(RecordsOf(req[p].inv)[i].logs) :
                  LET e == RecordsOf(req[p].inv)[i].logs[k]
                  IN e.from_value = req[p].originalDoc.f[e.field_name]

\* Two raced updates of one task that both changed the title: both records
\* report the same from_value, and the second one's differs from the value
\* the store held just before that update was applied.
C26_Witness ==
    \E p, q \in Procs :
        /\ p # q /\ Done(p) /\ Done(q) /\ req[p].id = req[q].id
        /\ req[p].op = "updateTask" /\ req[q].op = "updateTask"
        /\ req[p].applied /\ req[q].applied
        /\ Len(RecordsOf(req[p].inv)) = 1 /\ Len(RecordsOf(req[q].inv)) = 1
        /\ RecordsOf(req[p].inv)[1].logs[1] = Entry("title", "a", "b")
        /\ RecordsOf(req[q].inv)[1].logs[1] = Entry("title", "a", "b")
        /\ req[q].before.f.title = "b"

\* C27: every entry of an atomic update's record that reports a change of
\* value names a field the update's own payload set (entries whose two values
\* are equal, the subject of C19, are left aside).
C27_EntriesNameOwnPayloadFields ==
    \A p \in Procs :
        (Done(p) /\ req[p].op \in {"updateTask", "findOneAndUpdate"})
        => \A i \in 1..Len(RecordsOf(req[p].inv)) :
              \A k \in 1..Len(RecordsOf(req[p].inv)[i].logs) :
                  LET e == RecordsOf(req[p].inv)[i].logs[k]
                  IN e.from_value # e.to_value => e.field_name \in SetKeys(req[p].update)

\* C28: in the audit store no 'update' or 'create' record of a task comes
\* after a 'delete' record of that task.
C28_DeleteRecordIsLast ==
    \A i, j \in 1..Len(history) :
        (/\ i < j
         /\ history[i].change_type = "delete"
         /\ history[j].model_id = history[i].model_id)
        => history[j].change_type = "delete"

\* C29 (SpecAdmins): some existing user has the admin role.
C29_SomeAdminRemains ==
    \E u \in UserIds : users[u].exists /\ Includes(users[u].roles, "admin")

\* C30: a task that createTask stored or updateTask updated, while it is in
\* the task store, has an owner that is an existing user.
C30_OwnerExists ==
    \A p \in Procs :
        (/\ Done(p) /\ req[p].ctrl /\ req[p].op \in {"createTask", "updateTask"}
         /\ req[p].applied /\ tasks[req[p].id].present)
        => users[tasks[req[p].id].f.owner].exists

====
